---- MODULE Spec2Model ----
(***************************************************************************)
(* Model of the extraction -> validation -> reconciliation -> mirror-sync  *)
(* pipeline of the health companion API: the extract_parameters handler    *)
(* (app/pdf/routes.py), the oracle client (app/pdf/parser.py), the admin   *)
(* status operations (app/admin/routes.py), the health_parameters table    *)
(* (app/db/models.py) and the DynamoDB mirror document.                    *)
(*                                                                         *)
(* A request is a process that walks through the handler.  Its steps are   *)
(* cut where the handler touches a shared store: the read of all rows,     *)
(* the commit, the reload of the expired rows and the put_item.            *)
(***************************************************************************)
EXTENDS Integers, Sequences, FiniteSets, TLC

\* ------------------------------------------------------------------ bounds

\* Number of requests to extract_parameters in one run of the model.
MaxRequests == 3

\* Number of matches of the scanner's pattern in a text.
MaxMatches == 2

\* Number of requests and task runs between the admin operations of
\* AdminSpec.
MaxAdminRequests == 2

\* Number of requests that can be in flight at the same time.
NumWorkers == 2

\* Number of requests in a run of the model in which requests overlap.
MaxOverlapping == 2

\* The uploaded reports (rows of the reports table): the ids of three
\* documents, see Extracted.
Reports == {1, 2, 3}

Workers == 1..NumWorkers

\* An external id that matches no report.
UnknownReport == 0

\* The value of a column that was never assigned and has no default.
NULL == 0

\* get_current_admin_user()["id"]
AdminId == 1

\* datetime.utcnow(): some time, not NULL.
utcnow == 1

\* ------------------------------------------------------------------- names

UpperCase ==
    << "A", "B", "C", "D", "E", "F", "G", "H", "I", "J", "K", "L", "M",
       "N", "O", "P", "Q", "R", "S", "T", "U", "V", "W", "X", "Y", "Z" >>

LowerCase ==
    << "a", "b", "c", "d", "e", "f", "g", "h", "i", "j", "k", "l", "m",
       "n", "o", "p", "q", "r", "s", "t", "u", "v", "w", "x", "y", "z" >>

Digits == {"0", "1", "2", "3", "4", "5", "6", "7", "8", "9"}

\* A name is a sequence of characters. [a-z0-9]
IsAlnum(c) == c \in Digits \/ \E i \in 1..Len(LowerCase) : LowerCase[i] = c

\* str.lower() on one character
Lower(c) ==
    IF \E i \in 1..Len(UpperCase) : UpperCase[i] = c
    THEN LowerCase[CHOOSE i \in 1..Len(UpperCase) : UpperCase[i] = c]
    ELSE c

RECURSIVE normalize_parameter_name(_)
\* re.sub(r'[^a-z0-9]', '', name.lower())
normalize_parameter_name(name) ==
    IF name = << >> THEN << >>
    ELSE LET c == Lower(Head(name))
             rest == normalize_parameter_name(Tail(name))
         IN  IF IsAlnum(c) THEN <<c>> \o rest ELSE rest

RECURSIVE LStrip(_)
LStrip(s) == IF s # << >> /\ Head(s) = " " THEN LStrip(Tail(s)) ELSE s

RECURSIVE RStrip(_)
RStrip(s) ==
    IF s # << >> /\ s[Len(s)] = " " THEN RStrip(SubSeq(s, 1, Len(s) - 1)) ELSE s

\* str.strip()
Strip(s) == RStrip(LStrip(s))

LowerAll(s) == [i \in 1..Len(s) |-> Lower(s[i])]

RECURSIVE SplitLoop(_, _, _)
\* str.split(): the maximal runs of characters that are not whitespace.
SplitLoop(s, words, word) ==
    IF s = << >>
    THEN IF word = << >> THEN words ELSE Append(words, word)
    ELSE IF Head(s) = " "
    THEN SplitLoop(Tail(s), IF word = << >> THEN words ELSE Append(words, word), << >>)
    ELSE SplitLoop(Tail(s), words, Append(word, Head(s)))

Split(s) == SplitLoop(s, << >>, << >>)

\* parser.py 42
disqualifiers ==
    { <<"h", "i", "g", "h">>,
      <<"b", "o", "r", "d", "e", "r", "l", "i", "n", "e">>,
      <<"n", "o", "r", "m", "a", "l">>,
      <<"d", "e", "s", "i", "r", "a", "b", "l", "e">>,
      <<"a", "b", "o", "v", "e">>,
      <<"b", "e", "l", "o", "w">>,
      <<"r", "e", "f">>,
      <<"m", "e", "t", "h", "o", "d">> }

\* Mutant of is_valid_parameter_name: a name of which half of the words
\* are generic passes.
is_valid_parameter_name_half(name_str) ==
    LET words == Split(name_str)
        count_generic ==
            Cardinality({ i \in 1..Len(words) : LowerAll(words[i]) \in disqualifiers })
    IN  IF Len(words) < 2 THEN FALSE
        ELSE 2 * count_generic <= Len(words)

\* parser.py 34-44; count_generic < len(words) / 2 is a comparison of a
\* whole number with a float.
is_valid_parameter_name(name_str) ==
    LET words == Split(name_str)
        count_generic ==
            Cardinality({ i \in 1..Len(words) : LowerAll(words[i]) \in disqualifiers })
    IN  IF Len(words) < 2 THEN FALSE
        ELSE 2 * count_generic < Len(words)

\* The canonical names the oracle may answer with for a candidate; << >> is
\* the empty string (the candidate is not a health parameter).
OracleAnswers(key) ==
    IF key = <<"a">>
    THEN { << >>, <<" ", "A">>, <<"a", "-">> }
    ELSE { << >>, <<"B">>, <<"a", "-">> }

\* ------------------------------------------------------------ the reports

\* What the scanner extracts from a report's document: the dict
\* extracted_params as its items in insertion order.  A report's blob never
\* changes, so this is a function of the report.
Extracted(r) ==
    IF r = 1
    THEN << [key |-> <<"a">>, value |-> "289", unit |-> "mg/dL"],
            [key |-> <<"b">>, value |-> "29", unit |-> "mg/dL"] >>
    ELSE IF r = 3
    THEN << >>
    ELSE << [key |-> <<"a">>, value |-> "120", unit |-> "mg/dL"] >>

\* ------------------------------------------------------------------ state

VARIABLES
    store,    \* health_parameters: the rows in id order, the id is the index
    mirror,   \* the DynamoDB table: report external id -> document
    req,      \* each request's position in extract_parameters and its locals
    prev,     \* history: the last request that returned, and the store then
    nreq,     \* the number of requests and task runs made so far
    reports,  \* reports: report id -> processing_status of the uploaded reports
    queue,    \* the task queue: the reports whose extract_pdf_task is enqueued
    upl,      \* the position of the upload in progress in upload_report
    scan      \* the scanner at work on a text: the matches of its pattern
              \* that are left, those it has seen, and its dict extracted

vars == <<store, mirror, req, prev, nreq, reports, queue, upl, scan>>

\* No upload in progress.
NoUpload == [pc |-> "idle", report |-> UnknownReport]

\* The scanner at rest.
NoScan == [matches |-> << >>, seen |-> << >>, extracted |-> << >>]

NoResponse == [status_code |-> 0]

NoPrev ==
    [report |-> UnknownReport, validated |-> << >>, outcome |-> "none",
     response |-> NoResponse, store |-> << >>]

\* A request that is not running. report is the external id it was called
\* with; sent is the payload of the oracle request; reply is validation_results, the oracle's reply as the list of
\* its is_valid values; validated is valid_params as its items; snap is the number of rows
\* all_params holds; updates and inserts are the session's unflushed writes;
\* doc is dynamo_document["parameters"]. outcome, committed, puts (the
\* number of put_item calls), downloads (the number of blob downloads),
\* oracle_calls (the number of calls of the oracle client) and start (the two stores when the request
\* began) record what the request did.
Idle ==
    [pc |-> "idle", report |-> UnknownReport, sent |-> << >>, reply |-> << >>,
     validated |-> << >>,
     snap |-> 0, updates |-> {}, inserts |-> << >>, doc |-> << >>,
     outcome |-> "none", response |-> NoResponse,
     committed |-> FALSE, puts |-> 0, downloads |-> 0, oracle_calls |-> 0,
     start |-> [store |-> << >>, mirror |-> << >>]]

\* The three reports have been uploaded and their tasks wait in the
\* queue; nothing has been extracted yet.
Init ==
    /\ store = << >>
    /\ mirror = << >>
    /\ req = [w \in Workers |-> Idle]
    /\ prev = NoPrev
    /\ nreq = 0
    /\ reports = [r \in Reports |-> "pending"]
    /\ queue = Reports
    /\ upl = NoUpload
    /\ scan = NoScan

\* ------------------------------------------------------ handler's helpers

Max(S) == CHOOSE x \in S : \A y \in S : y <= x

\* Mutant of NormOf: the stored display name is compared as it is.
NormOfRaw(row) == row.parameter_name

\* routes.py 104, 110, 123, 183
NormOf(row) == normalize_parameter_name(row.parameter_name)

\* dict[name] = details: a new key is appended, an old key keeps its place.
DictPut(d, name, details) ==
    IF \E i \in 1..Len(d) : d[i].name = name
    THEN [i \in 1..Len(d) |->
            IF d[i].name = name THEN [d[i] EXCEPT !.details = details] ELSE d[i]]
    ELSE Append(d, [name |-> name, details |-> details])

\* Mutant of params_for_validation: the details are sent whole.
params_for_validation_with_values(extracted) ==
    [i \in 1..Len(extracted) |->
        [name |-> extracted[i].key, unit |-> extracted[i].unit,
         value |-> extracted[i].value]]

\* parser.py 197-204: the payload of the oracle request, one entry per
\* candidate with its name and its unit.
params_for_validation(extracted) ==
    [i \in 1..Len(extracted) |->
        [name |-> extracted[i].key, unit |-> extracted[i].unit]]

RECURSIVE PartitionLoopKeepsPending(_, _, _, _)
\* Mutant of PartitionLoop: a candidate the oracle did not accept is kept
\* under the scanner's name.
PartitionLoopKeepsPending(extracted, reply, i, valid_params) ==
    IF i > Len(extracted) THEN valid_params
    ELSE LET result == IF i <= Len(reply) THEN reply[i] ELSE << >>
             validated_name == Strip(result)
             details == [value |-> extracted[i].value, unit |-> extracted[i].unit]
         IN  PartitionLoopKeepsPending(extracted, reply, i + 1,
                 DictPut(valid_params,
                         IF validated_name # << >> THEN validated_name
                         ELSE extracted[i].key,
                         details))

RECURSIVE PartitionLoop(_, _, _, _)
\* parser.py 252-258: the reply is read by position; an absent entry is {}.
PartitionLoop(extracted, reply, i, valid_params) ==
    IF i > Len(extracted) THEN valid_params
    ELSE LET result == IF i <= Len(reply) THEN reply[i] ELSE << >>
             validated_name == Strip(result)
             details == [value |-> extracted[i].value, unit |-> extracted[i].unit]
         IN  PartitionLoop(extracted, reply, i + 1,
                 IF validated_name # << >>
                 THEN DictPut(valid_params, validated_name, details)
                 ELSE valid_params)

\* valid_params of validate_health_parameters_with_openai, as its items.
ValidParams(extracted, reply) == PartitionLoop(extracted, reply, 1, << >>)

\* The replies the oracle can give to the candidates: a list of at most as
\* many entries (entries past the last candidate are never read).
Replies(extracted) ==
    UNION { { reply \in [1..m -> UNION { OracleAnswers(extracted[i].key) : i \in 1..m }] :
                \A i \in 1..m : reply[i] \in OracleAnswers(extracted[i].key) } :
            m \in 0..Len(extracted) }

\* routes.py 109-113: the normalized names of this report's rows.
ExistingReportParamNames(rows, r) ==
    { NormOf(rows[i]) : i \in { j \in 1..Len(rows) : rows[j].report_id = r } }

\* routes.py 116
ValidatedNorms(validated) ==
    { normalize_parameter_name(validated[i].name) : i \in 1..Len(validated) }

\* routes.py 122-126 and 140: the dict comprehension keeps the last row of a
\* key; 0 stands for None.
ExistingForThisReport(rows, r, k) ==
    LET ids == { i \in 1..Len(rows) : rows[i].report_id = r /\ NormOf(rows[i]) = k }
    IN  IF ids = {} THEN 0 ELSE Max(ids)

\* Mutant of NewParam: the record is named by the normalized name.
NewParamNormalizedName(r, v) ==
    [report_id |-> r, parameter_name |-> normalize_parameter_name(v.name),
     value |-> v.details.value, unit |-> v.details.unit, status |-> "pending",
     action_timestamp |-> NULL, approved_by |-> NULL, map_to_existing |-> "None"]

\* routes.py 148-156; the columns the constructor is not given are NULL or
\* their default (models.py 60-63).
NewParam(r, v) ==
    [report_id |-> r, parameter_name |-> Strip(v.name),
     value |-> v.details.value, unit |-> v.details.unit, status |-> "pending",
     action_timestamp |-> NULL, approved_by |-> NULL, map_to_existing |-> "None"]

\* routes.py 135-137
AlreadyExistsInAnyReport(all_set, norm_name) ==
    \E pr \in all_set : pr[1] = norm_name

RECURSIVE ReconcileLoopThisReportOnly(_, _, _, _, _, _)
\* Mutant of ReconcileLoop: a name is new when this report has no row for
\* it, whatever the other reports hold.
ReconcileLoopThisReportOnly(validated, rows, r, all_set, updates, inserts) ==
    IF validated = << >> THEN [updates |-> updates, inserts |-> inserts]
    ELSE LET v == Head(validated)
             norm_name == normalize_parameter_name(v.name)
             db_param == ExistingForThisReport(rows, r, norm_name)
         IN  IF /\ db_param # 0
                /\ db_param \notin updates
                /\ rows[db_param].status = "rejected"
             THEN ReconcileLoopThisReportOnly(Tail(validated), rows, r, all_set,
                                              updates \cup {db_param}, inserts)
             ELSE IF db_param = 0 /\ <<norm_name, r>> \notin all_set
             THEN ReconcileLoopThisReportOnly(Tail(validated), rows, r,
                                              all_set \cup {<<norm_name, r>>},
                                              updates, Append(inserts, NewParam(r, v)))
             ELSE ReconcileLoopThisReportOnly(Tail(validated), rows, r, all_set,
                                              updates, inserts)

RECURSIVE ReconcileLoop(_, _, _, _, _, _)
\* routes.py 129-159: the writes the loop leaves in the session. updates are
\* the ids of the rows set to pending, inserts the rows added.
ReconcileLoop(validated, rows, r, all_set, updates, inserts) ==
    IF validated = << >> THEN [updates |-> updates, inserts |-> inserts]
    ELSE LET v == Head(validated)
             norm_name == normalize_parameter_name(v.name)
             db_param == ExistingForThisReport(rows, r, norm_name)
         IN  IF /\ db_param # 0
                /\ db_param \notin updates
                /\ rows[db_param].status = "rejected"
             THEN ReconcileLoop(Tail(validated), rows, r, all_set,
                                updates \cup {db_param}, inserts)
             ELSE IF ~AlreadyExistsInAnyReport(all_set, norm_name)
             THEN ReconcileLoop(Tail(validated), rows, r,
                                all_set \cup {<<norm_name, r>>},
                                updates, Append(inserts, NewParam(r, v)))
             ELSE ReconcileLoop(Tail(validated), rows, r, all_set, updates, inserts)

\* routes.py 103-106
AllSet(rows) == { <<NormOf(rows[i]), rows[i].report_id>> : i \in 1..Len(rows) }

\* routes.py 161: the flush writes each changed row by id and adds the new rows.
Flush(rows, updates, inserts) ==
    [i \in 1..Len(rows) |->
        IF i \in updates THEN [rows[i] EXCEPT !.status = "pending"] ELSE rows[i]]
    \o inserts

\* routes.py 182-185: all_params holds the rows read at line 100; the commit
\* expired them, so each is read again here. The last row of a key wins.
NormMap(rows, snap, k) ==
    LET ids == { i \in 1..snap : NormOf(rows[i]) = k }
    IN  IF ids = {} THEN 0 ELSE Max(ids)

\* routes.py 187-199
DynamoDocument(validated, rows, snap) ==
    [i \in 1..Len(validated) |->
        LET db_param == NormMap(rows, snap, normalize_parameter_name(validated[i].name))
        IN  [parameter_name |-> validated[i].name,
             status |-> IF db_param # 0 /\ rows[db_param].status = "approved"
                        THEN "approved" ELSE "pending"]]

RECURSIVE KeysWithStatus(_, _)
\* routes.py 202-203
KeysWithStatus(doc, st) ==
    IF doc = << >> THEN << >>
    ELSE (IF Head(doc).status = st THEN <<Head(doc).parameter_name>> ELSE << >>)
         \o KeysWithStatus(Tail(doc), st)

\* routes.py 118
AlreadyExtracted ==
    [status_code |-> 200, message |-> "Health Parameter Already Extracted"]

\* An HTTPException, or the global exception handler's reply (main.py 33-39).
Error(code, detail) == [status_code |-> code, detail |-> detail]

\* routes.py 209-213
Complete(doc) ==
    [status_code |-> 200, message |-> "Extraction and validation complete",
     approved_parameters |-> KeysWithStatus(doc, "approved"),
     pending_parameters |-> KeysWithStatus(doc, "pending")]

\* --------------------------------------------------- extract_parameters

Finish(w, outcome, response) ==
    [req[w] EXCEPT !.pc = "done", !.outcome = outcome, !.response = response]

\* Mutant of ReportNotFound: the blob is fetched before the report is
\* looked up.
ReportNotFoundAfterDownload(w) ==
    /\ req[w].pc = "idle"
    /\ nreq < MaxRequests
    /\ nreq' = nreq + 1
    /\ req' = [req EXCEPT ![w] =
                 [Finish(w, "not_found", Error(404, "Report not found"))
                    EXCEPT !.report = UnknownReport, !.downloads = 1,
                           !.start = [store |-> store, mirror |-> mirror]]]
    /\ UNCHANGED <<store, mirror, prev, reports, queue, upl, scan>>

\* routes.py 74-76: the external id matches no report.
ReportNotFound(w) ==
    /\ req[w].pc = "idle"
    /\ nreq < MaxRequests
    /\ nreq' = nreq + 1
    /\ \E id \in ({UnknownReport} \cup Reports) \ DOMAIN reports :
          req' = [req EXCEPT ![w] =
                 [Finish(w, "not_found", Error(404, "Report not found"))
                    EXCEPT !.report = id,
                           !.start = [store |-> store, mirror |-> mirror]]]
    /\ UNCHANGED <<store, mirror, prev, reports, queue, upl, scan>>

\* routes.py 74-92, parser.py 196-225: the report is found, its blob
\* downloaded and scanned, and the oracle request built from the candidates.
Begin(w, r) ==
    /\ req[w].pc = "idle"
    /\ r \in DOMAIN reports
    /\ Extracted(r) # << >>
    /\ nreq < MaxRequests
    /\ nreq' = nreq + 1
    /\ req' = [req EXCEPT ![w] =
                 [Idle EXCEPT !.pc = "validate", !.report = r,
                              !.downloads = 1, !.oracle_calls = 1,
                              !.sent = params_for_validation(Extracted(r)),
                              !.start = [store |-> store, mirror |-> mirror]]]
    /\ UNCHANGED <<store, mirror, prev, reports, queue, upl, scan>>

\* routes.py 74-82: the report is found and the download of its blob
\* raises.
DownloadFails(w, r) ==
    /\ req[w].pc = "idle"
    /\ r \in DOMAIN reports
    /\ nreq < MaxRequests
    /\ nreq' = nreq + 1
    /\ req' = [req EXCEPT ![w] =
                 [Finish(w, "download_failed", Error(500, "Failed to download PDF"))
                    EXCEPT !.report = r, !.downloads = 1,
                           !.start = [store |-> store, mirror |-> mirror]]]
    /\ UNCHANGED <<store, mirror, prev, reports, queue, upl, scan>>

\* Mutant of NoCandidates: the candidates are counted after the oracle
\* has been asked.
NoCandidatesAfterOracle(w, r) ==
    /\ req[w].pc = "idle"
    /\ Extracted(r) = << >>
    /\ nreq < MaxRequests
    /\ nreq' = nreq + 1
    /\ req' = [req EXCEPT ![w] =
                 [Finish(w, "no_candidates",
                         Error(400, "No health parameters extracted from the PDF."))
                    EXCEPT !.report = r, !.downloads = 1, !.oracle_calls = 1,
                           !.start = [store |-> store, mirror |-> mirror]]]
    /\ UNCHANGED <<store, mirror, prev, reports, queue, upl, scan>>

\* routes.py 74-88: the scanner finds no candidate in the report.
NoCandidates(w, r) ==
    /\ req[w].pc = "idle"
    /\ r \in DOMAIN reports
    /\ Extracted(r) = << >>
    /\ nreq < MaxRequests
    /\ nreq' = nreq + 1
    /\ req' = [req EXCEPT ![w] =
                 [Finish(w, "no_candidates",
                         Error(400, "No health parameters extracted from the PDF."))
                    EXCEPT !.report = r, !.downloads = 1,
                           !.start = [store |-> store, mirror |-> mirror]]]
    /\ UNCHANGED <<store, mirror, prev, reports, queue, upl, scan>>

\* Mutant of OracleFails: the scanned candidates are kept as pending rows
\* (as extract_pdf_task keeps them) before the error is returned.
OracleFailsKeepsCandidates(w) ==
    /\ req[w].pc = "validate"
    /\ store' = store \o
                 [i \in 1..Len(Extracted(req[w].report)) |->
                    NewParam(req[w].report,
                             [name |-> Extracted(req[w].report)[i].key,
                              details |-> [value |-> Extracted(req[w].report)[i].value,
                                           unit |-> Extracted(req[w].report)[i].unit]])]
    /\ req' = [req EXCEPT ![w] =
                 Finish(w, "oracle_error", Error(500, "OpenAI validation failed"))]
    /\ UNCHANGED <<mirror, prev, nreq, reports, queue, upl, scan>>

\* routes.py 91-94, parser.py 206-247: the oracle call raises (no key, a
\* request error, a reply that is no JSON list of objects).
OracleFails(w) ==
    /\ req[w].pc = "validate"
    /\ req' = [req EXCEPT ![w] =
                 Finish(w, "oracle_error", Error(500, "OpenAI validation failed"))]
    /\ UNCHANGED <<store, mirror, prev, nreq, reports, queue, upl, scan>>

\* routes.py 91-97, parser.py 249-259: the oracle answers.
OracleReplies(w, reply) ==
    /\ req[w].pc = "validate"
    /\ req' = [req EXCEPT ![w] =
                 [@ EXCEPT !.pc = "load", !.reply = reply,
                           !.validated = ValidParams(Extracted(req[w].report), reply)]]
    /\ UNCHANGED <<store, mirror, prev, nreq, reports, queue, upl, scan>>

\* routes.py 115-118: every validated name is already on this report.
FastPath(validated, rows, r) ==
    ValidatedNorms(validated) \subseteq ExistingReportParamNames(rows, r)

\* routes.py 99-159: one read of every row, then the decisions in memory.
LoadAll(w) ==
    /\ req[w].pc = "load"
    /\ LET me == req[w]
           plan == ReconcileLoop(me.validated, store, me.report,
                                 AllSet(store), {}, << >>)
       IN  req' = [req EXCEPT ![w] =
                     IF FastPath(me.validated, store, me.report)
                     THEN Finish(w, "already", AlreadyExtracted)
                     ELSE [me EXCEPT !.pc = "commit", !.snap = Len(store),
                                     !.updates = plan.updates,
                                     !.inserts = plan.inserts]]
    /\ UNCHANGED <<store, mirror, prev, nreq, reports, queue, upl, scan>>

\* Mutant of Commit: each write is committed on its own, the updates
\* first, then the inserts one by one.
CommitRowByRow(w) ==
    /\ req[w].pc = "commit"
    /\ IF req[w].updates # {}
       THEN LET i == CHOOSE x \in req[w].updates : \A y \in req[w].updates : x <= y
            IN  /\ store' = [store EXCEPT ![i] = [@ EXCEPT !.status = "pending"]]
                /\ req' = [req EXCEPT ![w] = [@ EXCEPT !.updates = @ \ {i}]]
       ELSE IF Len(req[w].inserts) > 1
       THEN /\ store' = Append(store, Head(req[w].inserts))
            /\ req' = [req EXCEPT ![w] = [@ EXCEPT !.inserts = Tail(@)]]
       ELSE /\ store' = store \o req[w].inserts
            /\ req' = [req EXCEPT ![w] = [@ EXCEPT !.pc = "reload", !.committed = TRUE]]
    /\ UNCHANGED <<mirror, prev, nreq, reports, queue, upl, scan>>

\* routes.py 161: the flush and the COMMIT of the request's one transaction.
Commit(w) ==
    /\ req[w].pc = "commit"
    /\ store' = Flush(store, req[w].updates, req[w].inserts)
    /\ req' = [req EXCEPT ![w] = [@ EXCEPT !.pc = "reload", !.committed = TRUE]]
    /\ UNCHANGED <<mirror, prev, nreq, reports, queue, upl, scan>>

\* Mutant of CommitFails: the failure of the commit is swallowed and the
\* handler goes on.
CommitFailsIgnored(w) ==
    /\ req[w].pc = "commit"
    /\ req' = [req EXCEPT ![w] = [@ EXCEPT !.pc = "reload"]]
    /\ UNCHANGED <<store, mirror, prev, nreq, reports, queue, upl, scan>>

\* routes.py 161, session.py 19-23, main.py 33-39: the flush or the COMMIT
\* raises; nothing catches it before the global exception handler, and
\* db.close() rolls the transaction back.
CommitFails(w) ==
    /\ req[w].pc = "commit"
    /\ req' = [req EXCEPT ![w] =
                 Finish(w, "commit_failed", Error(500, "Internal server error"))]
    /\ UNCHANGED <<store, mirror, prev, nreq, reports, queue, upl, scan>>

\* routes.py 163-203: the expired rows are read again and the document built.
Reload(w) ==
    /\ req[w].pc = "reload"
    /\ req' = [req EXCEPT ![w] =
                 [@ EXCEPT !.pc = "put",
                           !.doc = DynamoDocument(req[w].validated, store, req[w].snap)]]
    /\ UNCHANGED <<store, mirror, prev, nreq, reports, queue, upl, scan>>

\* table.put_item(Item=...): the item replaces the one with the same key.
PutDocument(table, report_id, parameters) ==
    [k \in DOMAIN table \cup {report_id} |->
        IF k = report_id
        THEN [report_id |-> report_id, parameters |-> parameters]
        ELSE table[k]]

\* routes.py 206-213
PutItem(w) ==
    /\ req[w].pc = "put"
    /\ mirror' = PutDocument(mirror, req[w].report, req[w].doc)
    /\ req' = [req EXCEPT ![w] =
                 [Finish(w, "ok", Complete(req[w].doc)) EXCEPT !.puts = @ + 1]]
    /\ UNCHANGED <<store, prev, nreq, reports, queue, upl, scan>>

\* Mutant of PutItemFails: the failed put_item is tried once more before
\* the failure is surfaced.
PutItemFailsRetried(w) ==
    /\ req[w].pc = "put"
    /\ req' = [req EXCEPT ![w] =
                 IF req[w].puts = 0
                 THEN [@ EXCEPT !.puts = @ + 1]
                 ELSE [Finish(w, "mirror_failed", Error(500, "Internal server error"))
                         EXCEPT !.puts = @ + 1]]
    /\ UNCHANGED <<store, mirror, prev, nreq, reports, queue, upl, scan>>

\* routes.py 206, main.py 33-39: put_item raises and nothing catches it
\* before the global exception handler.
PutItemFails(w) ==
    /\ req[w].pc = "put"
    /\ req' = [req EXCEPT ![w] =
                 [Finish(w, "mirror_failed", Error(500, "Internal server error"))
                    EXCEPT !.puts = @ + 1]]
    /\ UNCHANGED <<store, mirror, prev, nreq, reports, queue, upl, scan>>

\* The response is sent; get_db closes the session (session.py 19-23).
Return(w) ==
    /\ req[w].pc = "done"
    /\ prev' = [report |-> req[w].report, validated |-> req[w].validated,
                outcome |-> req[w].outcome, response |-> req[w].response,
                store |-> store]
    /\ req' = [req EXCEPT ![w] = Idle]
    /\ UNCHANGED <<store, mirror, nreq, reports, queue, upl, scan>>

\* ---------------------------------------------------------------- admin

SetStatus(rows, param_id, st) ==
    [rows EXCEPT ![param_id] = [@ EXCEPT !.status = st]]

\* The admin operation's reply is sent.
AdminReturned(response) ==
    [NoPrev EXCEPT !.outcome = "admin", !.response = response]

\* admin/routes.py 71-73, 123-125
Approve(rows, param_id) ==
    [SetStatus(rows, param_id, "approved")
        EXCEPT ![param_id].action_timestamp = utcnow,
               ![param_id].approved_by = AdminId]

\* admin/routes.py 89-90, 130-131
Reject(rows, param_id) ==
    [SetStatus(rows, param_id, "rejected")
        EXCEPT ![param_id].action_timestamp = utcnow]

\* Mutant of approve_parameter: the approving admin is not recorded.
approve_parameter_anonymous(param_id) ==
    /\ IF param_id \in 1..Len(store)
       THEN /\ store' = [SetStatus(store, param_id, "approved")
                           EXCEPT ![param_id].action_timestamp = utcnow]
            /\ prev' = AdminReturned([status_code |-> 200,
                                      message |-> "Parameter approved"])
       ELSE /\ store' = store
            /\ prev' = AdminReturned(Error(404, "Parameter not found"))
    /\ UNCHANGED <<mirror, req, nreq, reports, queue, upl, scan>>

\* admin/routes.py 59-76; the remarks column is not modelled.
approve_parameter(param_id) ==
    /\ IF param_id \in 1..Len(store)
       THEN /\ store' = Approve(store, param_id)
            /\ prev' = AdminReturned([status_code |-> 200,
                                      message |-> "Parameter approved"])
       ELSE /\ store' = store
            /\ prev' = AdminReturned(Error(404, "Parameter not found"))
    /\ UNCHANGED <<mirror, req, nreq, reports, queue, upl, scan>>

\* Mutant of reject_parameter: the report's mirror document follows the
\* record's new status.
reject_parameter_mirrored(param_id) ==
    /\ IF param_id \in 1..Len(store)
       THEN /\ store' = Reject(store, param_id)
            /\ mirror' = [r \in DOMAIN mirror \ {store[param_id].report_id}
                             |-> mirror[r]]
            /\ prev' = AdminReturned([status_code |-> 200,
                                      message |-> "Parameter rejected"])
       ELSE /\ store' = store
            /\ mirror' = mirror
            /\ prev' = AdminReturned(Error(404, "Parameter not found"))
    /\ UNCHANGED <<req, nreq, reports, queue, upl, scan>>

\* admin/routes.py 78-93
reject_parameter(param_id) ==
    /\ IF param_id \in 1..Len(store)
       THEN /\ store' = Reject(store, param_id)
            /\ prev' = AdminReturned([status_code |-> 200,
                                      message |-> "Parameter rejected"])
       ELSE /\ store' = store
            /\ prev' = AdminReturned(Error(404, "Parameter not found"))
    /\ UNCHANGED <<mirror, req, nreq, reports, queue, upl, scan>>

\* admin/routes.py 95-104
map_parameter(param_id, map_to_existing) ==
    /\ IF param_id \in 1..Len(store)
       THEN /\ store' = [store EXCEPT ![param_id].map_to_existing = map_to_existing]
            /\ prev' = AdminReturned([status_code |-> 200,
                                      message |-> "Mapping updated"])
       ELSE /\ store' = store
            /\ prev' = AdminReturned(Error(404, "Parameter not found"))
    /\ UNCHANGED <<mirror, req, nreq, reports, queue, upl, scan>>

\* Mutant of update_parameter: any action that is not approve rejects.
update_parameter_rejects_by_default(param_id, action) ==
    /\ IF param_id \notin 1..Len(store)
       THEN /\ store' = store
            /\ prev' = AdminReturned(Error(404, "Parameter not found"))
       ELSE IF action = "approve"
       THEN /\ store' = Approve(store, param_id)
            /\ prev' = AdminReturned([status_code |-> 200,
                                      message |-> "Parameter approved"])
       ELSE /\ store' = Reject(store, param_id)
            /\ prev' = AdminReturned([status_code |-> 200,
                                      message |-> "Parameter rejected"])
    /\ UNCHANGED <<mirror, req, nreq, reports, queue, upl, scan>>

\* admin/routes.py 106-136: the record is looked up by id (404 when there
\* is none), then the action decides; any other action is answered 400
\* with nothing written.
update_parameter(param_id, action) ==
    /\ IF param_id \notin 1..Len(store)
       THEN /\ store' = store
            /\ prev' = AdminReturned(Error(404, "Parameter not found"))
       ELSE IF action = "approve"
       THEN /\ store' = Approve(store, param_id)
            /\ prev' = AdminReturned([status_code |-> 200,
                                      message |-> "Parameter approved"])
       ELSE IF action = "reject"
       THEN /\ store' = Reject(store, param_id)
            /\ prev' = AdminReturned([status_code |-> 200,
                                      message |-> "Parameter rejected"])
       ELSE /\ store' = store
            /\ prev' = AdminReturned(Error(400, "Invalid action"))
    /\ UNCHANGED <<mirror, req, nreq, reports, queue, upl, scan>>

\* ------------------------------------------------------ extract_pdf_task

\* celery_worker.py 36-37: what the task's extractor returns for a report's
\* document, a dict from names to details like the scanner's.
TaskExtracted(r) == Extracted(r)

\* celery_worker.py 48-51: a pending or approved row of exactly this name.
ExistingByName(rows, param_name) ==
    \E i \in 1..Len(rows) :
        /\ rows[i].parameter_name = param_name
        /\ rows[i].status \in {"pending", "approved"}

RECURSIVE TaskLoop(_, _, _, _)
\* celery_worker.py 46-65: the rows the loop adds to the session. Each
\* query reads the table (autoflush is off), not the rows added so far.
TaskLoop(extracted, rows, r, inserts) ==
    IF extracted = << >> THEN inserts
    ELSE LET param_name == Head(extracted).key
         IN  TaskLoop(Tail(extracted), rows, r,
                 IF ExistingByName(rows, param_name)
                 THEN inserts
                 ELSE Append(inserts,
                             [report_id |-> r, parameter_name |-> param_name,
                              value |-> Head(extracted).value,
                              unit |-> Head(extracted).unit,
                              status |-> "pending",
                              action_timestamp |-> NULL, approved_by |-> NULL,
                              map_to_existing |-> "None"]))

\* celery_worker.py 16-71: a worker takes the task for the blob of report
\* r from the queue; a key that matches no report returns at line 43 with
\* nothing written.
extract_pdf_task(r) ==
    /\ r \in queue
    /\ queue' = queue \ {r}
    /\ nreq < MaxRequests
    /\ nreq' = nreq + 1
    /\ store' = IF r \in DOMAIN reports
                THEN store \o TaskLoop(TaskExtracted(r), store, r, << >>)
                ELSE store
    /\ prev' = NoPrev
    /\ UNCHANGED <<mirror, req, reports, upl, scan>>

\* ---------------------------------------------------------- upload_report

\* Mutant of UploadStore: the task is enqueued as soon as the blob is
\* stored, before the report's row is committed.
UploadStoreAndEnqueue(r) ==
    /\ upl.pc = "idle"
    /\ r \in Reports \ DOMAIN reports
    /\ nreq < MaxRequests
    /\ nreq' = nreq + 1
    /\ upl' = [pc |-> "stored", report |-> r]
    /\ queue' = queue \cup {r}
    /\ UNCHANGED <<store, mirror, req, prev, reports, scan>>

\* routes.py 27-37, s3_utils.py 8-24: a PDF is uploaded and stored in the
\* blob store under a fresh report id (another content type is answered
\* 400, a failure of the blob store 500, with nothing written).
UploadStore(r) ==
    /\ upl.pc = "idle"
    /\ r \in Reports \ DOMAIN reports
    /\ nreq < MaxRequests
    /\ nreq' = nreq + 1
    /\ upl' = [pc |-> "stored", report |-> r]
    /\ UNCHANGED <<store, mirror, req, prev, reports, queue, scan>>

\* routes.py 39-47, models.py 31-38: the report's row is committed with
\* processing_status pending.
UploadCommit ==
    /\ upl.pc = "stored"
    /\ reports' = [k \in DOMAIN reports \cup {upl.report} |->
                     IF k = upl.report THEN "pending" ELSE reports[k]]
    /\ upl' = [upl EXCEPT !.pc = "committed"]
    /\ UNCHANGED <<store, mirror, req, prev, nreq, queue, scan>>

\* routes.py 46, main.py 33-39: the commit raises; the handler is left
\* before line 49.
UploadCommitFails ==
    /\ upl.pc = "stored"
    /\ upl' = NoUpload
    /\ UNCHANGED <<store, mirror, req, prev, nreq, reports, queue, scan>>

\* routes.py 49-56: extract_pdf_task.delay(s3_key), then the reply.
UploadEnqueue ==
    /\ upl.pc = "committed"
    /\ queue' = queue \cup {upl.report}
    /\ upl' = NoUpload
    /\ UNCHANGED <<store, mirror, req, prev, nreq, reports, scan>>

\* ------------------------------------------------------------ the scanner

\* extracted[normalized_name] = {...}: a new key is appended, an old key
\* keeps its place and gets the new details.
ScanPut(extracted, key, value, unit) ==
    IF \E i \in 1..Len(extracted) : extracted[i].key = key
    THEN [i \in 1..Len(extracted) |->
            IF extracted[i].key = key
            THEN [key |-> key, value |-> value, unit |-> unit]
            ELSE extracted[i]]
    ELSE Append(extracted, [key |-> key, value |-> value, unit |-> unit])

\* parser.py 128-143: the loop's body for one match of the pattern, whose
\* groups name, value and unit are the match's fields.
ScanMatch ==
    /\ scan.matches # << >>
    /\ LET details == Head(scan.matches)
           candidate_name_raw == LowerAll(Strip(details.name))
           normalized_name == normalize_parameter_name(candidate_name_raw)
       IN  scan' = [matches |-> Tail(scan.matches),
                    seen |-> Append(scan.seen, details),
                    extracted |->
                      IF /\ is_valid_parameter_name(candidate_name_raw)
                         /\ details.value # "" /\ details.unit # ""
                      THEN ScanPut(scan.extracted, normalized_name,
                                   details.value, details.unit)
                      ELSE scan.extracted]
    /\ UNCHANGED <<store, mirror, req, prev, nreq, reports, queue, upl>>

\* The words of the texts.
WordCholesterol == <<"C", "h", "o", "l", "e", "s", "t", "e", "r", "o", "l">>

WordTotal == <<"T", "o", "t", "a", "l">>

WordHDL == <<"H", "D", "L">>

WordHigh == <<"h", "i", "g", "h">>

WordHighCapital == <<"H", "i", "g", "h">>

WordNormal == <<"n", "o", "r", "m", "a", "l">>

WordNormalCapital == <<"N", "o", "r", "m", "a", "l">>

WordRange == <<"r", "a", "n", "g", "e">>

WordAbove == <<"a", "b", "o", "v", "e">>

\* The display names in the texts, as their words.
WordLists ==
    { <<WordCholesterol, WordTotal>>,
      <<WordHigh, WordNormal, WordRange>>,
      <<WordAbove, WordNormal>>,
      <<WordCholesterol>>,
      <<WordHDL, WordNormalCapital>>,
      <<WordHighCapital, WordCholesterol, WordTotal>> }

RECURSIVE JoinWords(_)
JoinWords(words) ==
    IF words = << >> THEN << >>
    ELSE IF Len(words) = 1 THEN Head(words)
    ELSE Head(words) \o <<" ">> \o JoinWords(Tail(words))

\* The name group of a match: the pattern's name class holds whitespace,
\* so the blank before the name is part of the group.
NameGroup(words) == <<" ">> \o JoinWords(words)

\* The matches of the pattern in a text: both the value and the unit group
\* are mandatory in the pattern.
Matches ==
    { [name |-> NameGroup(words), value |-> v, unit |-> "mg/dL"] :
        words \in WordLists, v \in {"289", "120"} }

Texts == UNION { [1..n -> Matches] : n \in 1..MaxMatches }

\* ------------------------------------------------------- specifications

Step(w) ==
    \/ OracleFails(w)
    \/ \E reply \in Replies(Extracted(req[w].report)) : OracleReplies(w, reply)
    \/ LoadAll(w)
    \/ Commit(w)
    \/ CommitFails(w)
    \/ Reload(w)
    \/ PutItem(w)
    \/ PutItemFails(w)
    \/ Return(w)

\* The admin operations on the records there are.
Admin ==
    \E param_id \in 1..Len(store) :
        \/ approve_parameter(param_id)
        \/ reject_parameter(param_id)
        \/ \E action \in {"approve", "reject"} : update_parameter(param_id, action)

\* The actions a form can carry.
Actions == {"approve", "reject", "delete"}

\* The names a record can be mapped to.
MapTargets == {"a"}

\* The admin operations with any id and any action.
AdminAny ==
    \E param_id \in 1..(Len(store) + 1) :
        \/ approve_parameter(param_id)
        \/ reject_parameter(param_id)
        \/ \E map_to_existing \in MapTargets : map_parameter(param_id, map_to_existing)
        \/ \E action \in Actions : update_parameter(param_id, action)

\* The admin operations of the two single-purpose endpoints on the records
\* there are; update_parameter with approve or reject writes what these
\* write.
AdminDirect ==
    \E param_id \in 1..Len(store) :
        \/ approve_parameter(param_id)
        \/ reject_parameter(param_id)

\* The server's workers are interchangeable: a request is served by the
\* first idle one.
FirstIdle(w) == \A v \in Workers : v < w => req[v].pc # "idle"

\* Requests and admin operations in any interleaving.
Next ==
    \/ nreq < MaxOverlapping /\ \E w \in Workers : FirstIdle(w) /\ ReportNotFound(w)
    \/ nreq < MaxOverlapping /\ \E w \in Workers, r \in Reports :
          FirstIdle(w) /\ DownloadFails(w, r)
    \/ nreq < MaxOverlapping /\ \E w \in Workers, r \in Reports :
          FirstIdle(w) /\ NoCandidates(w, r)
    \/ nreq < MaxOverlapping /\ \E w \in Workers, r \in Reports :
          FirstIdle(w) /\ Begin(w, r)
    \/ \E w \in Workers : Step(w)
    \/ AdminDirect

Spec == Init /\ [][Next]_vars

AllIdle == \A w \in Workers : req[w].pc = "idle"

\* Requests one after another, admin operations between them.
SeqNext ==
    \/ AllIdle /\ ReportNotFound(1)
    \/ AllIdle /\ \E r \in Reports : DownloadFails(1, r)
    \/ AllIdle /\ \E r \in Reports : NoCandidates(1, r)
    \/ AllIdle /\ \E r \in Reports : Begin(1, r)
    \/ \E w \in Workers : Step(w)
    \/ AllIdle /\ Admin

SeqSpec == Init /\ [][SeqNext]_vars

\* Requests, admin operations and runs of the background task, one after
\* another.
TaskNext ==
    \/ SeqNext
    \/ AllIdle /\ \E r \in Reports : extract_pdf_task(r)

TaskSpec == Init /\ [][TaskNext]_vars

\* The state after construction: no report has been uploaded.
UploadInit ==
    /\ store = << >>
    /\ mirror = << >>
    /\ req = [w \in Workers |-> Idle]
    /\ prev = NoPrev
    /\ nreq = 0
    /\ reports = << >>
    /\ queue = {}
    /\ upl = NoUpload
    /\ scan = NoScan

\* Uploads, the worker that runs the queued tasks at any time, and
\* requests and admin operations one after another.
UploadNext ==
    \/ \E r \in Reports : UploadStore(r)
    \/ UploadCommit
    \/ UploadCommitFails
    \/ UploadEnqueue
    \/ \E r \in Reports : extract_pdf_task(r)
    \/ SeqNext

UploadSpec == UploadInit /\ [][UploadNext]_vars

\* The scanner on a text.
ScanInit ==
    /\ store = << >>
    /\ mirror = << >>
    /\ req = [w \in Workers |-> Idle]
    /\ prev = NoPrev
    /\ nreq = 0
    /\ reports = [r \in Reports |-> "pending"]
    /\ queue = Reports
    /\ upl = NoUpload
    /\ scan \in { [matches |-> t, seen |-> << >>, extracted |-> << >>] : t \in Texts }

ScanNext == ScanMatch

ScanSpec == ScanInit /\ [][ScanNext]_vars

\* Requests and runs of the background task one after another, any admin
\* operation between them.
AdminNext ==
    \/ AllIdle /\ nreq < MaxAdminRequests /\ ReportNotFound(1)
    \/ AllIdle /\ nreq < MaxAdminRequests /\ \E r \in Reports : DownloadFails(1, r)
    \/ AllIdle /\ nreq < MaxAdminRequests /\ \E r \in Reports : NoCandidates(1, r)
    \/ AllIdle /\ nreq < MaxAdminRequests /\ \E r \in Reports : Begin(1, r)
    \/ \E w \in Workers : Step(w)
    \/ AllIdle /\ nreq < MaxAdminRequests /\ \E r \in Reports : extract_pdf_task(r)
    \/ AllIdle /\ AdminAny

AdminSpec == Init /\ [][AdminNext]_vars

\* --------------------------------------------------------------- claims

\* The canonical key of a stored record.
KeyOf(row) == normalize_parameter_name(row.parameter_name)

KeysOf(rows) == { KeyOf(rows[i]) : i \in 1..Len(rows) }

\* The request has gone through the whole handler and answered 200.
Succeeded(w) == req[w].pc = "done" /\ req[w].outcome \in {"ok", "already"}

\* The request got past the oracle and ran the reconciliation to its end.
Reconciled(w) ==
    req[w].pc = "done" /\ req[w].outcome \in {"ok", "already", "mirror_failed"}

\* C1: when two passes for different reports run at the same time and both
\* validate the same canonical key, a key that no record had when either
\* began, exactly one record with that key exists once both have finished.
C1_NoDuplicateUnderRace ==
    \A w1 \in Workers, w2 \in Workers :
        (/\ w1 # w2
         /\ Reconciled(w1) /\ Reconciled(w2)
         /\ req[w1].report # req[w2].report)
        => \A k \in ValidatedNorms(req[w1].validated)
                    \cap ValidatedNorms(req[w2].validated) :
              (k \notin KeysOf(req[w1].start.store) /\ k \notin KeysOf(req[w2].start.store))
              => Cardinality({ i \in 1..Len(store) : KeyOf(store[i]) = k }) = 1

C3_RejectedBecomesPending ==
    \A w \in Workers :
        Reconciled(w)
        => \A i \in 1..Len(req[w].start.store) :
              (/\ req[w].start.store[i].report_id = req[w].report
               /\ req[w].start.store[i].status = "rejected"
               /\ KeyOf(req[w].start.store[i]) \in ValidatedNorms(req[w].validated))
              => (store[i].status = "pending" /\ store[i].report_id = req[w].report)

\* The pass repeats the last one: the same report and the same oracle
\* answer for the same candidates, and nothing happened in between.
Repeats(w) ==
    /\ req[w].pc \in {"load", "commit", "reload", "put", "done"}
    /\ req[w].outcome \in {"none", "ok", "already", "mirror_failed"}
    /\ prev.outcome \in {"ok", "already", "mirror_failed"}
    /\ prev.report = req[w].report
    /\ prev.validated = req[w].validated

HasLists(response) ==
    {"approved_parameters", "pending_parameters"} \subseteq DOMAIN response

\* C4: a second pass over the same report with the same candidates and the
\* same oracle answer returns the approved and pending lists the first
\* pass returned.
C4_SameListsOnSecondCall ==
    \A w \in Workers :
        (Succeeded(w) /\ Repeats(w) /\ HasLists(prev.response))
        => /\ HasLists(req[w].response)
           /\ req[w].response.approved_parameters = prev.response.approved_parameters
           /\ req[w].response.pending_parameters = prev.response.pending_parameters

\* C5: a second pass over the same report with the same candidates and the
\* same oracle answer writes nothing to the durable store, whether or not
\* it takes the early return.
C5_SecondPassWritesNothing ==
    \A w \in Workers :
        Repeats(w)
        => /\ store = prev.store
           /\ req[w].pc \in {"commit", "reload", "put", "done"}
              => (req[w].updates = {} /\ req[w].inserts = << >>)

\* C5's case: the second pass did not take the early return (a validated
\* key is held by another report's record) and went through the commit.
C5_SecondPassCommitted ==
    \E w \in Workers :
        Repeats(w) /\ req[w].pc = "done" /\ req[w].outcome = "ok" /\ req[w].committed

\* The entries of the mirror document of a report; a report without a
\* document has none.
MirrorEntries(r) == IF r \in DOMAIN mirror THEN mirror[r].parameters ELSE << >>

\* The mirror document of report r has one entry per validated name, no
\* other entry, and each entry has the status of a stored record of its key.
MirrorMatchesStore(r, validated) ==
    LET entries == MirrorEntries(r)
    IN  /\ Len(entries) = Len(validated)
        /\ { entries[i].parameter_name : i \in 1..Len(entries) }
             = { validated[i].name : i \in 1..Len(validated) }
        /\ \A i \in 1..Len(entries) :
              \E j \in 1..Len(store) :
                  /\ KeyOf(store[j]) = normalize_parameter_name(entries[i].parameter_name)
                  /\ store[j].status = entries[i].status

\* C6: after every pass that returns successfully, the mirror document of
\* its report has exactly one entry per validated name of that pass, each
\* with the current status of the record of its key, and no other entry.
C6_MirrorConsistentAfterPass ==
    \A w \in Workers :
        Succeeded(w) => MirrorMatchesStore(req[w].report, req[w].validated)

\* C7: a name that an earlier pass for the report validated and a later
\* successful pass for the report did not is no longer listed in the
\* report's mirror document after the later pass, while its record is
\* still in the durable store.
C7_MirrorFullyOverwritten ==
    \A w \in Workers :
        (/\ Succeeded(w)
         /\ prev.outcome \in {"ok", "already", "mirror_failed"}
         /\ prev.report = req[w].report)
        => \A i \in 1..Len(prev.validated) :
              (\A j \in 1..Len(req[w].validated) :
                   req[w].validated[j].name # prev.validated[i].name)
              => /\ \A e \in 1..Len(MirrorEntries(req[w].report)) :
                        MirrorEntries(req[w].report)[e].parameter_name
                          # prev.validated[i].name
                 /\ normalize_parameter_name(prev.validated[i].name) \in KeysOf(store)

\* C8: when a pass committed and its mirror write failed, a re-run for the
\* same report with the same validated set that returns successfully has
\* written the mirror document, which matches the durable store again.
C8_StaleMirrorRepairedByRerun ==
    \A w \in Workers :
        (Succeeded(w) /\ Repeats(w) /\ prev.outcome = "mirror_failed")
        => MirrorMatchesStore(req[w].report, req[w].validated)

\* The request's mirror write failed after its commit.
MirrorWriteFailed(w) == req[w].pc = "done" /\ req[w].outcome = "mirror_failed"

\* C9 as stated: a failed mirror write is tried again before the failure
\* is surfaced (a budget that allows no further try is no retry).
C9_MirrorWriteRetried ==
    \A w \in Workers : MirrorWriteFailed(w) => req[w].puts > 1

\* C9, amended: a failed mirror write is not retried. The one failed
\* put_item is surfaced at once as the generic HTTP 500 reply, with the
\* pass's writes committed to the durable store and the mirror as it was
\* before the pass.
C9_FailureSurfacedWithoutRetry ==
    \A w \in Workers :
        MirrorWriteFailed(w)
        => /\ req[w].puts = 1
           /\ req[w].committed
           /\ req[w].response = Error(500, "Internal server error")
           /\ store = Flush(req[w].start.store, req[w].updates, req[w].inserts)
           /\ mirror = req[w].start.mirror

\* C9's case: the mirror write failed after a commit that wrote records.
C9_FailedAfterCommit ==
    \E w \in Workers :
        MirrorWriteFailed(w) /\ req[w].inserts # << >> /\ store # req[w].start.store

\* C10: when the oracle call fails, the pass ends with an error and has
\* changed neither the durable store nor the mirror.
C10_OracleFailureWritesNothing ==
    \A w \in Workers :
        req[w].outcome = "oracle_error"
        => /\ req[w].pc = "done"
           /\ req[w].response.status_code = 500
           /\ ~req[w].committed
           /\ req[w].puts = 0
           /\ store = req[w].start.store
           /\ mirror = req[w].start.mirror

\* C10's case: the oracle call failed for a report that had candidates,
\* with records and a mirror document already there.
C10_OracleFailed ==
    \E w \in Workers :
        /\ req[w].pc = "done" /\ req[w].outcome = "oracle_error"
        /\ Extracted(req[w].report) # << >>
        /\ store # << >> /\ DOMAIN mirror # {}

\* C11: the writes of one pass are committed as one unit. A step of a pass
\* that is at its commit either puts all of the pass's updates and inserts
\* in the store or, when the commit fails, none; and no other step of a
\* pass changes the store.
C11_AtomicCommit ==
    [][\A w \in Workers :
          req'[w] # req[w]
          => IF req[w].pc = "commit"
             THEN \/ /\ req'[w].pc = "reload"
                     /\ store' = Flush(store, req[w].updates, req[w].inserts)
                  \/ /\ req'[w].outcome = "commit_failed"
                     /\ store' = store
             ELSE store' = store]_vars

\* C11's case: a pass has committed more than one write.
C11_CommittedSeveralWrites ==
    \E w \in Workers :
        /\ req[w].pc = "reload" /\ req[w].committed
        /\ Cardinality(req[w].updates) + Len(req[w].inserts) >= 2
        /\ store = Flush(req[w].start.store, req[w].updates, req[w].inserts)

\* The step is one of a reconciliation pass (an admin operation leaves
\* every request as it is).
PassStep == req' # req

\* C12: every change of a record's status is pending to approved, pending
\* to rejected or rejected to pending; an approved record's status never
\* changes again; and rejected to pending is made by a reconciliation
\* pass only, never by an admin operation.
C12_StatusStateMachine ==
    [][\A i \in 1..Len(store) :
          store'[i].status # store[i].status
          => /\ <<store[i].status, store'[i].status>>
                  \in { <<"pending", "approved">>, <<"pending", "rejected">>,
                        <<"rejected", "pending">> }
             /\ store[i].status = "rejected" => PassStep]_vars

\* C13: a reconciliation pass never moves a record out of approved,
\* whatever admin operations run between its read and its commit.
C13_PassKeepsApproved ==
    [][PassStep
       => \A i \in 1..Len(store) :
             store[i].status = "approved" => store'[i].status = "approved"]_vars

\* The request is past its reconciliation loop.
PastLoop(w) == req[w].pc \in {"commit", "reload", "put", "done"}

\* The candidates of the request whose reply entry is there and, stripped,
\* not empty.
Accepted(w) ==
    { i \in 1..Len(Extracted(req[w].report)) :
        i <= Len(req[w].reply) /\ Strip(req[w].reply[i]) # << >> }

\* C14: every record a pass inserts is pending, attached to the pass's
\* report, named by the oracle's display name (not by the scanner's
\* normalized name) and has the value and unit of a scanned candidate the
\* oracle accepted under that name.
C14_InsertedRecordFields ==
    \A w \in Workers :
        PastLoop(w)
        => \A k \in 1..Len(req[w].inserts) :
              LET row == req[w].inserts[k]
              IN  /\ row.status = "pending"
                  /\ row.report_id = req[w].report
                  /\ \E i \in Accepted(w) :
                        /\ row.parameter_name = Strip(req[w].reply[i])
                        /\ row.value = Extracted(req[w].report)[i].value
                        /\ row.unit = Extracted(req[w].report)[i].unit
                  /\ req[w].committed
                     => \E j \in 1..Len(store) : j > req[w].snap /\ store[j] = row

\* C14's case: a pass has committed a record whose display name is not
\* its normalized name.
C14_InsertedDisplayName ==
    \E w \in Workers :
        /\ PastLoop(w) /\ req[w].committed
        /\ \E k \in 1..Len(req[w].inserts) :
              req[w].inserts[k].parameter_name
                # normalize_parameter_name(req[w].inserts[k].parameter_name)

\* C15: each report has at most one record per normalized name, also when
\* a pass validates two display names of one key and when two passes for
\* the same report run at the same time.
C15_OneRecordPerReportAndKey ==
    \A i \in 1..Len(store), j \in 1..Len(store) :
        (i # j /\ store[i].report_id = store[j].report_id)
        => KeyOf(store[i]) # KeyOf(store[j])

\* The ids of the records of key k among rows.
RecordsOfKey(rows, k) == { i \in 1..Len(rows) : KeyOf(rows[i]) = k }

\* Key k is held, and only by rejected records of reports other than r.
HeldOnlyRejectedElsewhere(rows, r, k) ==
    /\ RecordsOfKey(rows, k) # {}
    /\ \A i \in RecordsOfKey(rows, k) :
          rows[i].status = "rejected" /\ rows[i].report_id # r

\* C16: when a pass for report R validates a name whose key is held only
\* by a rejected record of another report, the pass attaches that record
\* to R and inserts no second record of the key.
C16_RejectedRecordReassigned ==
    \A w \in Workers :
        Reconciled(w)
        => \A k \in ValidatedNorms(req[w].validated) :
              HeldOnlyRejectedElsewhere(req[w].start.store, req[w].report, k)
              => /\ RecordsOfKey(store, k) = RecordsOfKey(req[w].start.store, k)
                 /\ \E i \in RecordsOfKey(store, k) : store[i].report_id = req[w].report

\* C17: on every ingestion path a name that differs from a stored record's
\* display name only in case or in non-alphanumeric characters is the same
\* parameter: no step inserts a record whose normalized key is that of a
\* stored record with another display name.
C17_NormalizedComparisonEverywhere ==
    [][\A j \in (Len(store) + 1)..Len(store') :
          ~ \E i \in 1..Len(store) :
                /\ KeyOf(store[i]) = KeyOf(store'[j])
                /\ store[i].parameter_name # store'[j].parameter_name]_vars

\* The measured values a candidate can have.
Values == {"289", "29", "120"}

\* The candidates with other measured values, names and units as they are.
WithValues(extracted, vals) ==
    [i \in 1..Len(extracted) |-> [extracted[i] EXCEPT !.value = vals[i]]]

\* The request has built its oracle request.
SentRequest(w) ==
    /\ req[w].pc # "idle"
    /\ req[w].outcome \notin {"not_found", "download_failed", "no_candidates"}

\* C18: the oracle request depends on the candidates' names and units
\* only: whatever values the same candidates have, the request is the
\* same, and no entry of it has a field other than name and unit.
C18_OracleRequestWithoutValues ==
    \A w \in Workers :
        SentRequest(w)
        => LET extracted == Extracted(req[w].report)
           IN  /\ \A vals \in [1..Len(extracted) -> Values] :
                     params_for_validation(WithValues(extracted, vals)) = req[w].sent
               /\ \A i \in 1..Len(req[w].sent) :
                     DOMAIN req[w].sent[i] = {"name", "unit"}

\* C18's case: the oracle has answered a request for two candidates.
C18_RequestAnswered ==
    \E w \in Workers :
        SentRequest(w) /\ req[w].pc = "load" /\ Len(req[w].sent) = 2

\* The oracle has answered the request.
GotReply(w) ==
    /\ req[w].pc \in {"load", "commit", "reload", "put", "done"}
    /\ req[w].outcome \in {"none", "ok", "already", "mirror_failed", "commit_failed"}

\* The candidates of the request that the oracle did not accept.
Dropped(w) == (1..Len(Extracted(req[w].report))) \ Accepted(w)

\* The names the request's response lists.
ListedNames(w) ==
    IF HasLists(req[w].response)
    THEN { req[w].response.approved_parameters[i] :
             i \in 1..Len(req[w].response.approved_parameters) }
         \cup { req[w].response.pending_parameters[i] :
                  i \in 1..Len(req[w].response.pending_parameters) }
    ELSE {}

SeqToSet(q) == { q[i] : i \in 1..Len(q) }

\* Some record of the name's key has the status.
HasRecordWithStatus(name, st) ==
    \E j \in 1..Len(store) :
        KeyOf(store[j]) = normalize_parameter_name(name) /\ store[j].status = st

\* C20: in the result of a successful pass the approved and the pending
\* list are disjoint, together they are the validated names, every name in
\* the approved list has an approved record and every name in the pending
\* list has a pending record.
C20_ListsFollowStoreStatus ==
    \A w \in Workers :
        (req[w].pc = "done" /\ req[w].outcome = "ok")
        => LET approved == SeqToSet(req[w].response.approved_parameters)
               pending == SeqToSet(req[w].response.pending_parameters)
           IN  /\ approved \cap pending = {}
               /\ approved \cup pending
                    = { req[w].validated[i].name : i \in 1..Len(req[w].validated) }
               /\ \A n \in approved : HasRecordWithStatus(n, "approved")
               /\ \A n \in pending : HasRecordWithStatus(n, "pending")

\* The request has written neither store.
WroteNothing(w) ==
    /\ ~req[w].committed /\ req[w].puts = 0
    /\ req[w].updates = {} /\ req[w].inserts = << >>
    /\ store = req[w].start.store
    /\ mirror = req[w].start.mirror

\* C21: a pass for an external id that matches no report ends with the
\* not-found error and has downloaded no blob, called no oracle and
\* written neither the durable store nor the mirror.
C21_UnknownReportNotFound ==
    \A w \in Workers :
        req[w].outcome = "not_found"
        => /\ req[w].pc = "done"
           /\ req[w].response = Error(404, "Report not found")
           /\ req[w].downloads = 0
           /\ req[w].oracle_calls = 0 /\ req[w].sent = << >>
           /\ WroteNothing(w)

\* C21's case: the pass for an unknown id ran with records and a mirror
\* document in place.
C21_UnknownReportAsked ==
    \E w \in Workers :
        /\ req[w].pc = "done" /\ req[w].outcome = "not_found"
        /\ req[w].report \notin Reports
        /\ store # << >> /\ DOMAIN mirror # {}

\* C22: when the scanner extracts no candidate, the pass answers with the
\* no-candidates outcome and has called no oracle and written neither the
\* durable store nor the mirror.
C22_NoCandidatesNoOracleNoWrite ==
    \A w \in Workers :
        req[w].outcome = "no_candidates"
        => /\ req[w].pc = "done"
           /\ Extracted(req[w].report) = << >>
           /\ req[w].response
                = Error(400, "No health parameters extracted from the PDF.")
           /\ req[w].oracle_calls = 0 /\ req[w].sent = << >>
           /\ WroteNothing(w)

\* C22's case: the pass for a report without candidates ran with records
\* and a mirror document in place.
C22_NoCandidatesFound ==
    \E w \in Workers :
        /\ req[w].pc = "done" /\ req[w].outcome = "no_candidates"
        /\ req[w].downloads = 1
        /\ store # << >> /\ DOMAIN mirror # {}

\* C23: the mirror write of a pass happens only after the commit of that
\* pass has succeeded: a step in which a pass calls put_item is a step of
\* a pass that has committed, and nothing else changes the mirror.
C23_MirrorWriteAfterCommit ==
    [][/\ \A w \in Workers :
             req'[w].puts > req[w].puts
             => /\ req[w].pc = "put"
                /\ req[w].committed
                /\ req[w].outcome # "commit_failed"
       /\ mirror' # mirror
          => \E w \in Workers : req'[w].puts > req[w].puts]_vars

\* C23's case: a pass has committed records and then written the mirror.
C23_MirrorWritten ==
    \E w \in Workers :
        /\ req[w].pc = "done" /\ req[w].outcome = "ok" /\ req[w].puts = 1
        /\ req[w].committed /\ req[w].inserts # << >>
        /\ mirror # req[w].start.mirror

\* The request ran for a report and has ended.
PassEnded(w) == req[w].pc = "done" /\ req[w].report \in DOMAIN reports

\* C24: a report is created with processing status pending, and after a
\* pass for the report has completed its processing status is success
\* when the pass succeeded and failure when it failed.
C24_ProcessingStatusUpdated ==
    /\ upl.pc = "committed" => reports[upl.report] = "pending"
    /\ \A w \in Workers :
          PassEnded(w)
          => reports[req[w].report]
               = IF req[w].outcome \in {"ok", "already"} THEN "success" ELSE "failure"

\* C30: the report's row is committed before its task is enqueued: the
\* report of every queued task is in the reports table, so the task's
\* lookup by the blob key finds it.
C30_ReportCommittedBeforeEnqueue ==
    \A r \in queue : r \in DOMAIN reports

\* C30's case: a task enqueued by an upload has run, found its report and
\* inserted the candidates it extracted.
C30_QueuedTaskRan ==
    /\ upl.pc = "idle"
    /\ \E i \in 1..Len(store) :
          /\ store[i].report_id \in DOMAIN reports \ queue
          /\ \E k \in 1..Len(TaskExtracted(store[i].report_id)) :
                store[i].parameter_name = TaskExtracted(store[i].report_id)[k].key

\* The words of the display name of a match.
WordsOf(details) == CHOOSE words \in WordLists : NameGroup(words) = details.name

\* A display name of at least two words of which strictly fewer than half
\* are disqualifying, whatever their case.
KeptName(words) ==
    /\ Len(words) >= 2
    /\ 2 * Cardinality({ i \in 1..Len(words) : LowerAll(words[i]) \in disqualifiers })
         < Len(words)

CholesterolTotalKey ==
    <<"c", "h", "o", "l", "e", "s", "t", "e", "r", "o", "l", "t", "o", "t", "a", "l">>

\* The last match seen whose display name has these words.
LastSeen(words) ==
    LET ids == { i \in 1..Len(scan.seen) : WordsOf(scan.seen[i]) = words }
    IN  scan.seen[CHOOSE i \in ids : \A j \in ids : j <= i]

\* C25: the scanner keeps a candidate exactly when its display name has at
\* least two words and strictly fewer than half of them are disqualifying;
\* a kept candidate is under its normalized name with the value and unit
\* of its match. "high normal range" and "above normal" are rejected,
\* "Cholesterol Total" is kept under cholesteroltotal.
C25_ScannerFilter ==
    /\ \A i \in 1..Len(scan.seen) :
          LET words == WordsOf(scan.seen[i])
              key == normalize_parameter_name(JoinWords(words))
          IN  IF KeptName(words)
              THEN \E e \in 1..Len(scan.extracted) :
                      /\ scan.extracted[e].key = key
                      /\ scan.extracted[e].value = LastSeen(words).value
                      /\ scan.extracted[e].unit = LastSeen(words).unit
              ELSE \A e \in 1..Len(scan.extracted) : scan.extracted[e].key # key
    /\ \A e \in 1..Len(scan.extracted) :
          \E i \in 1..Len(scan.seen) :
              scan.extracted[e].key
                = normalize_parameter_name(JoinWords(WordsOf(scan.seen[i])))
    /\ \A i \in 1..Len(scan.seen) :
          WordsOf(scan.seen[i]) = <<WordCholesterol, WordTotal>>
          => \E e \in 1..Len(scan.extracted) : scan.extracted[e].key = CholesterolTotalKey
    /\ ~KeptName(<<WordHigh, WordNormal, WordRange>>)
    /\ ~KeptName(<<WordAbove, WordNormal>>)

\* C25's case: the scanner has seen "high normal range" and then
\* "Cholesterol Total" with 289 mg/dL and kept the second only.
C25_ScannedText ==
    /\ scan.matches = << >>
    /\ scan.seen = << [name |-> NameGroup(<<WordHigh, WordNormal, WordRange>>),
                       value |-> "120", unit |-> "mg/dL"],
                      [name |-> NameGroup(<<WordCholesterol, WordTotal>>),
                       value |-> "289", unit |-> "mg/dL"] >>
    /\ scan.extracted
         = << [key |-> CholesterolTotalKey, value |-> "289", unit |-> "mg/dL"] >>

\* C26: a reconciliation pass for report R leaves every record of another
\* report and every pending or approved record of R as it is: the only
\* records it writes are new ones attached to R and rejected records of R
\* that it sets to pending.
C26_PassWritesOnlyItsReport ==
    [][\A w \in Workers :
          req'[w] # req[w]
          => /\ Len(store') >= Len(store)
             /\ \A i \in 1..Len(store) :
                   \/ store'[i] = store[i]
                   \/ /\ store[i].report_id = req[w].report
                      /\ store[i].status = "rejected"
                      /\ store'[i] = [store[i] EXCEPT !.status = "pending"]
             /\ \A j \in (Len(store) + 1)..Len(store') :
                   /\ store'[j].report_id = req[w].report
                   /\ store'[j].status = "pending"]_vars

\* C27: the admin operations approve_parameter, reject_parameter,
\* update_parameter and map_parameter never write the mirror store: every
\* step in which an admin operation returns leaves every report's mirror
\* document, the reports and the task queue as they are.
C27_AdminLeavesMirror ==
    [][(req' = req /\ prev'.outcome = "admin")
       => /\ mirror' = mirror
          /\ reports' = reports
          /\ queue' = queue]_vars

\* C27's case: a record was approved and mapped by admin operations after
\* a pass wrote its report's mirror document, which still lists it pending.
C27_ApprovedAfterMirrorWrite ==
    /\ prev.outcome = "admin"
    /\ \E i \in 1..Len(store) :
          /\ store[i].status = "approved"
          /\ store[i].map_to_existing \in MapTargets
          /\ store[i].report_id \in DOMAIN mirror
          /\ \E k \in 1..Len(MirrorEntries(store[i].report_id)) :
                /\ MirrorEntries(store[i].report_id)[k].parameter_name
                     = store[i].parameter_name
                /\ MirrorEntries(store[i].report_id)[k].status = "pending"

\* C28: an admin operation on a parameter id that does not exist answers
\* not found, update_parameter with an action other than approve or reject
\* answers invalid action, and no record is changed by an admin operation
\* that answers an error.
C28_AdminErrorsWriteNothing ==
    [][/\ \A param_id \in 1..(Len(store) + 1) :
             (/\ param_id \notin 1..Len(store)
              /\ \/ approve_parameter(param_id)
                 \/ reject_parameter(param_id)
                 \/ \E map_to_existing \in MapTargets :
                        map_parameter(param_id, map_to_existing)
                 \/ \E action \in Actions : update_parameter(param_id, action))
             => /\ prev'.response = Error(404, "Parameter not found")
                /\ store' = store
       /\ \A param_id \in 1..Len(store) :
             \A action \in Actions \ {"approve", "reject"} :
                update_parameter(param_id, action)
                => /\ prev'.response = Error(400, "Invalid action")
                   /\ store' = store
       /\ (req' = req /\ prev'.outcome = "admin" /\ prev'.response.status_code # 200)
             => store' = store]_vars

\* C28's case: an admin operation was answered invalid action while there
\* are pending records.
C28_InvalidActionAnswered ==
    /\ prev.outcome = "admin"
    /\ prev.response = Error(400, "Invalid action")
    /\ \E i \in 1..Len(store) : store[i].status = "pending"

\* C29: every approved record has an approver identity and an action
\* timestamp that are not null.
C29_ApprovedHasApprover ==
    \A i \in 1..Len(store) :
        store[i].status = "approved"
        => /\ store[i].approved_by # NULL
           /\ store[i].action_timestamp # NULL

\* C29's case: a record is approved, another is rejected and never had an
\* approver, a third was never acted upon.
C29_ApprovedAmongOthers ==
    /\ \E i \in 1..Len(store) : store[i].status = "approved"
    /\ \E i \in 1..Len(store) :
          store[i].status = "rejected" /\ store[i].approved_by = NULL
    /\ \E i \in 1..Len(store) :
          store[i].status = "pending" /\ store[i].action_timestamp = NULL

====
